---- MODULE Spec2Model ----
(***************************************************************************)
(* A model of src/range_map.rs: RangeMap<T>, a BTreeMap from half-open     *)
(* ranges [start, end) of u64 offsets to values.  The u64 width is scaled  *)
(* down to 0..MaxU so that the additions of the code reach the width edge. *)
(* Arithmetic that the code leaves unchecked (`+`) aborts in a build with  *)
(* overflow checks (the debug profile) and wraps in a build without them   *)
(* (the release profile); `debug` ranges over both builds.  Size, which is  *)
(* not part of this file, is taken to carry any u64.                       *)
(***************************************************************************)
EXTENDS Integers, Sequences, FiniteSets, TLC

\* largest value of the offset type (u64::MAX, scaled down)
MaxU == 3

U64 == 0..MaxU
\* T is opaque to the map: two values tell a written value from an old one
Val == {0, 1}

VARIABLES map, size, debug, pc, err, it, last, call

vars == <<map, size, debug, pc, err, it, last, call>>

\* unchecked u64 addition in a build without overflow checks
Wrap(n) == n % (MaxU + 1)

\* struct Range { start, end }
Range(s, e) == [start |-> s, end |-> e]

\* the derived Ord of Range: by start, then by end
Lt(a, b) == a.start < b.start \/ (a.start = b.start /\ a.end < b.end)

\* the keys of S in ascending order, as BTreeMap iterates them
RECURSIVE SortedKeys(_)
SortedKeys(S) ==
    IF S = {} THEN <<>>
    ELSE LET k == CHOOSE x \in S : \A y \in S : y = x \/ Lt(x, y)
         IN  <<k>> \o SortedKeys(S \ {k})

\* Range::range with the upper sentinel one too low
range_low_sentinel(offset, len, dbg) ==
    IF len = 0
    THEN [err |-> "none", lo |-> Range(0, 1), hi |-> Range(0, 1)]
    ELSE IF dbg /\ (offset + 1 > MaxU \/ offset + len > MaxU
                    \/ offset + len + 1 > MaxU)
    THEN [err |-> "overflow", lo |-> Range(0, 1), hi |-> Range(0, 1)]
    ELSE [err |-> "none",
          lo  |-> Range(0, Wrap(offset + 1)),
          hi  |-> Range(Wrap(offset + len - 1), Wrap(offset + len))]

\* Range::range(offset, len): the window of keys [lo, hi)
range(offset, len, dbg) ==
    IF len = 0
    THEN [err |-> "none", lo |-> Range(0, 1), hi |-> Range(0, 1)]
    ELSE IF dbg /\ (offset + 1 > MaxU \/ offset + len > MaxU
                    \/ offset + len + 1 > MaxU)
    THEN [err |-> "overflow", lo |-> Range(0, 1), hi |-> Range(0, 1)]
    ELSE [err |-> "none",
          lo  |-> Range(0, Wrap(offset + 1)),
          hi  |-> Range(Wrap(offset + len), Wrap(Wrap(offset + len) + 1))]

\* Range::overlaps(&self, offset, len); `&&` evaluates checked_add only
\* when offset < self.end
overlaps(r, offset, len) ==
    IF len = 0 THEN [err |-> "none", val |-> FALSE]
    ELSE IF ~(offset < r.end) THEN [err |-> "none", val |-> FALSE]
    ELSE IF offset + len > MaxU THEN [err |-> "unwrap", val |-> FALSE]
    ELSE [err |-> "none", val |-> offset + len >= r.start]

\* BTreeMap::range / range_mut over lo..hi: the keys k with lo <= k < hi in
\* ascending order; the standard library panics when lo > hi
btree_range(m, lo, hi) ==
    IF Lt(hi, lo) THEN [err |-> "btree_range", cands |-> <<>>]
    ELSE [err |-> "none",
          cands |-> SortedKeys({k \in DOMAIN m : ~Lt(k, lo) /\ Lt(k, hi)})]

\* BTreeMap::insert and BTreeMap::remove
insert(m, k, v) == [x \in DOMAIN m \cup {k} |-> IF x = k THEN v ELSE m[x]]
remove(m, k) == [x \in DOMAIN m \ {k} |-> m[x]]

NoRange == Range(0, 0)

\* one call of next() on the filter_map adaptor of iter_with_range: skip
\* the candidates the closure rejects, stop at the first it accepts
RECURSIVE filter_next(_, _, _, _)
filter_next(cands, offset, len, dbg) ==
    IF cands = <<>>
    THEN [err |-> "none", found |-> FALSE, key |-> NoRange, rest |-> <<>>]
    ELSE LET r == Head(cands)
             o == overlaps(r, offset, len)
         IN  IF dbg /\ ~(len > 0)
             THEN [err |-> "debug_assert", found |-> FALSE, key |-> r,
                   rest |-> Tail(cands)]
             ELSE IF o.err # "none"
             THEN [err |-> o.err, found |-> FALSE, key |-> r,
                   rest |-> Tail(cands)]
             ELSE IF o.val
             THEN [err |-> "none", found |-> TRUE, key |-> r,
                   rest |-> Tail(cands)]
             ELSE filter_next(Tail(cands), offset, len, dbg)

\* the closure of iter_mut yielding every candidate of the window, without
\* the overlap test
RECURSIVE iter_mut_next_unfiltered(_, _, _, _)
iter_mut_next_unfiltered(cands, offset, len, dbg) ==
    IF cands = <<>>
    THEN [err |-> "none", found |-> FALSE, key |-> NoRange, rest |-> <<>>]
    ELSE [err |-> "none", found |-> TRUE, key |-> Head(cands),
          rest |-> Tail(cands)]

\* one call of next() on the filter_map adaptor of iter_mut: as above, with
\* the assert! that an accepted range lies inside [offset, offset+len)
RECURSIVE iter_mut_next(_, _, _, _)
iter_mut_next(cands, offset, len, dbg) ==
    IF cands = <<>>
    THEN [err |-> "none", found |-> FALSE, key |-> NoRange, rest |-> <<>>]
    ELSE LET r == Head(cands)
             o == overlaps(r, offset, len)
         IN  IF dbg /\ ~(len > 0)
             THEN [err |-> "debug_assert", found |-> FALSE, key |-> r,
                   rest |-> Tail(cands)]
             ELSE IF o.err # "none"
             THEN [err |-> o.err, found |-> FALSE, key |-> r,
                   rest |-> Tail(cands)]
             ELSE IF o.val
             THEN IF ~(offset <= r.start /\ offset + len >= r.end)
                  THEN [err |-> "assert_split", found |-> FALSE, key |-> r,
                        rest |-> Tail(cands)]
                  ELSE [err |-> "none", found |-> TRUE, key |-> r,
                        rest |-> Tail(cands)]
             ELSE iter_mut_next(Tail(cands), offset, len, dbg)

\* the keys of the window w that Range::range computed, as BTreeMap::range
\* walks them
window(m, w) ==
    IF w.err # "none" THEN [err |-> w.err, cands |-> <<>>]
    ELSE btree_range(m, w.lo, w.hi)

\* RangeMap::iter_with_range: the lazy sequence, not yet consumed
iter_with_range(m, offset, len, dbg) == window(m, range(offset, len, dbg))

\* the sequence of iter_with_range consumed to its end: the keys whose
\* values are yielded, in the order they are yielded
RECURSIVE consume(_, _, _, _)
consume(s, offset, len, dbg) ==
    IF s.err # "none" THEN [err |-> s.err, out |-> <<>>]
    ELSE LET n == filter_next(s.cands, offset, len, dbg)
         IN  IF n.err # "none" THEN [err |-> n.err, out |-> <<>>]
             ELSE IF ~n.found THEN [err |-> "none", out |-> <<>>]
             ELSE LET t == consume([err |-> "none", cands |-> n.rest],
                                   offset, len, dbg)
                  IN  [err |-> t.err,
                       out |-> IF t.err # "none" THEN <<>>
                               ELSE <<n.key>> \o t.out]

\* RangeMap::iter(offset, len), consumed to its end
iter(m, offset, len, dbg) ==
    consume(iter_with_range(m, offset, len, dbg), offset, len, dbg)

\* RangeMap::new(size, init)
new(sz, init) ==
    IF sz > 0 THEN insert(<<>>, Range(0, sz), init) ELSE <<>>

\* `self.iter_with_range(offset, 1).next()` of split_entry_at
first_overlap(s, offset, dbg) ==
    IF s.err # "none"
    THEN [err |-> s.err, found |-> FALSE, key |-> NoRange, rest |-> <<>>]
    ELSE filter_next(s.cands, offset, 1, dbg)

\* the `if range.start < offset` block of split_entry_at without its second
\* insert
split_range_one_insert(m, r, offset) ==
    [err |-> "none",
     map |-> insert(remove(m, r), Range(r.start, offset), m[r])]

\* the `if range.start < offset` block of split_entry_at: remove `range`,
\* insert its two halves, assert that neither replaces a key
split_range(m, r, offset) ==
    LET m1 == remove(m, r)
        k1 == Range(r.start, offset)
        k2 == Range(offset, r.end)
    IN  IF k1 \in DOMAIN m1
        THEN [err |-> "assert_dup", map |-> insert(m1, k1, m[r])]
        ELSE IF k2 \in DOMAIN m1 \cup {k1}
        THEN [err |-> "assert_dup",
              map |-> insert(insert(m1, k1, m[r]), k2, m[r])]
        ELSE [err |-> "none",
              map |-> insert(insert(m1, k1, m[r]), k2, m[r])]

\* split_entry_at splitting also a range that starts at offset (`<=` for `<`)
split_found_at_start(m, offset, n) ==
    IF n.err # "none" THEN [err |-> n.err, map |-> m]
    ELSE IF ~n.found THEN [err |-> "none", map |-> m]
    ELSE IF ~(n.key.start <= offset /\ n.key.end > offset)
    THEN [err |-> "assert_contains", map |-> m]
    ELSE IF n.key.start <= offset THEN split_range(m, n.key, offset)
    ELSE [err |-> "none", map |-> m]

\* split_entry_at after its `match`: n is what next() returned
split_found(m, offset, n) ==
    IF n.err # "none" THEN [err |-> n.err, map |-> m]
    ELSE IF ~n.found THEN [err |-> "none", map |-> m]
    ELSE IF ~(n.key.start <= offset /\ n.key.end > offset)
    THEN [err |-> "assert_contains", map |-> m]
    ELSE IF n.key.start < offset THEN split_range(m, n.key, offset)
    ELSE [err |-> "none", map |-> m]

\* RangeMap::split_entry_at(offset): the map it leaves and how it ended
split_entry_at(m, offset, dbg) ==
    split_found(m, offset,
                first_overlap(iter_with_range(m, offset, 1, dbg), offset, dbg))

\* `self.map.range_mut(Range::range(offset, len))` of iter_mut, on the map
\* the splits s left
iter_mut_range(s, offset, len, dbg) ==
    IF s.err # "none" THEN [err |-> s.err, map |-> s.map, cands |-> <<>>]
    ELSE LET c == window(s.map, range(offset, len, dbg))
         IN  [err |-> c.err, map |-> s.map, cands |-> c.cands]

\* iter_mut without its second split
iter_mut_no_second_split(s, offset, len, dbg) ==
    IF s.err # "none" THEN s
    ELSE IF dbg /\ offset + len > MaxU
    THEN [err |-> "overflow", map |-> s.map]
    ELSE s

\* `self.split_entry_at(offset + len)` of iter_mut, on the map the first
\* split s left
iter_mut_second_split(s, offset, len, dbg) ==
    IF s.err # "none" THEN s
    ELSE IF dbg /\ offset + len > MaxU
    THEN [err |-> "overflow", map |-> s.map]
    ELSE split_entry_at(s.map, Wrap(offset + len), dbg)

\* iter_mut without the `if len > 0` around its two splits
iter_mut_always_split(m, offset, len, dbg) ==
    iter_mut_range(
        iter_mut_second_split(split_entry_at(m, offset, dbg),
                              offset, len, dbg),
        offset, len, dbg)

\* RangeMap::iter_mut(offset, len) up to the point where it returns the lazy
\* sequence: the two splits and the window of range_mut
iter_mut(m, offset, len, dbg) ==
    IF len > 0
    THEN iter_mut_range(
             iter_mut_second_split(split_entry_at(m, offset, dbg),
                                   offset, len, dbg),
             offset, len, dbg)
    ELSE iter_mut_range([err |-> "none", map |-> m], offset, len, dbg)

\* RangeMap::iter_mut_all leaving out the first stored value
iter_mut_all_skip_first(m) ==
    IF DOMAIN m = {} THEN <<>> ELSE Tail(SortedKeys(DOMAIN m))

\* RangeMap::iter_mut_all(): `self.map.values_mut()`, the keys whose values
\* are yielded, in the order they are yielded
iter_mut_all(m) == SortedKeys(DOMAIN m)

----------------------------------------------------------------------------
\* the elements of a sequence
Elems(q) == {q[i] : i \in 1..Len(q)}

\* no iterator is live
NoIter == [offset |-> 0, len |-> 0, cands |-> <<>>]

\* no private function of Range is being called on its own
NoCall == [fn |-> "none", r |-> NoRange, offset |-> 0, len |-> 0,
           res |-> <<>>]

\* the record kept of the operation in progress or last completed
Op(op, offset, len, pre, out, writes, done) ==
    [op |-> op, offset |-> offset, len |-> len, pre |-> pre, out |-> out,
     writes |-> writes, done |-> done]

Init ==
    /\ size \in U64
    /\ debug \in BOOLEAN
    /\ \E init \in Val :
         /\ map = new(size, init)
         /\ last = Op("new", 0, 0, <<>>, <<>>, <<init>>, TRUE)
    /\ pc = "idle"
    /\ err = "none"
    /\ it = NoIter
    /\ call = NoCall

\* map.iter(offset, len) consumed to its end by the caller
Iter ==
    /\ pc = "idle"
    /\ \E offset \in U64, len \in U64 :
         LET r == iter(map, offset, len, debug)
         IN  /\ last' = Op("iter", offset, len, map, r.out, <<>>,
                           r.err = "none")
             /\ err' = r.err
             /\ pc' = IF r.err = "none" THEN "idle" ELSE "panicked"
    /\ UNCHANGED <<map, size, debug, it, call>>

\* the call map.iter_mut(offset, len): returns the lazy sequence
IterMut ==
    /\ pc = "idle"
    /\ \E offset \in U64, len \in U64 :
         LET r == iter_mut(map, offset, len, debug)
         IN  /\ map' = r.map
             /\ err' = r.err
             /\ last' = Op("iter_mut", offset, len, map, <<>>, <<>>, FALSE)
             /\ IF r.err = "none"
                THEN /\ pc' = "iter_mut"
                     /\ it' = [offset |-> offset, len |-> len,
                               cands |-> r.cands]
                ELSE /\ pc' = "panicked"
                     /\ it' = NoIter
    /\ UNCHANGED <<size, debug, call>>

\* the consumer calls next() on the sequence of iter_mut and, given a
\* `&mut T`, stores a value through it
IterMutNext ==
    /\ pc = "iter_mut"
    /\ ~last.done
    /\ LET n == iter_mut_next(it.cands, it.offset, it.len, debug)
       IN  IF n.err # "none"
           THEN /\ pc' = "panicked"
                /\ err' = n.err
                /\ it' = NoIter
                /\ UNCHANGED <<map, last>>
           ELSE IF ~n.found
           THEN /\ last' = [last EXCEPT !.done = TRUE]
                /\ it' = [it EXCEPT !.cands = <<>>]
                /\ UNCHANGED <<map, pc, err>>
           ELSE \E w \in Val :
                  /\ map' = [map EXCEPT ![n.key] = w]
                  /\ it' = [it EXCEPT !.cands = n.rest]
                  /\ last' = [last EXCEPT !.out = Append(@, n.key),
                                          !.writes = Append(@, w)]
                  /\ UNCHANGED <<pc, err>>
    /\ UNCHANGED <<size, debug, call>>

\* the consumer drops the sequence of iter_mut, consumed to its end or not
IterMutDrop ==
    /\ pc = "iter_mut"
    /\ pc' = "idle"
    /\ it' = NoIter
    /\ UNCHANGED <<map, size, debug, err, last, call>>

\* map.iter_mut_all() consumed to its end, the consumer storing a value
\* through every `&mut T`
IterMutAll ==
    /\ pc = "idle"
    /\ \E f \in [Elems(iter_mut_all(map)) -> Val] :
         LET ks == iter_mut_all(map)
         IN  /\ map' = [k \in DOMAIN map |->
                          IF k \in DOMAIN f THEN f[k] ELSE map[k]]
             /\ last' = Op("iter_mut_all", 0, 0, map, ks,
                           [i \in 1..Len(ks) |-> f[ks[i]]], TRUE)
    /\ UNCHANGED <<size, debug, pc, err, it, call>>

Next == Iter \/ IterMut \/ IterMutNext \/ IterMutDrop \/ IterMutAll

Spec == Init /\ [][Next]_vars

----------------------------------------------------------------------------
\* the private method split_entry_at(offset) called on its own, between two
\* public operations
SplitEntryAt ==
    /\ pc = "idle"
    /\ \E offset \in U64 :
         /\ map' = split_entry_at(map, offset, debug).map
         /\ err' = split_entry_at(map, offset, debug).err
         /\ pc' = IF split_entry_at(map, offset, debug).err = "none"
                  THEN "idle" ELSE "panicked"
         /\ last' = Op("split_entry_at", offset, 1, map, <<>>, <<>>,
                       split_entry_at(map, offset, debug).err = "none")
    /\ UNCHANGED <<size, debug, it, call>>

NextSplit == Next \/ SplitEntryAt

\* the public operations and split_entry_at
SpecSplit == Init /\ [][NextSplit]_vars

----------------------------------------------------------------------------
\* every Range that keeps the invariant end > start
Ranges == {k \in [start : U64, end : U64] : k.end > k.start}

\* the arguments of one call of a function of Range, drawn from all of u64
InitPure ==
    /\ size = 0
    /\ debug \in BOOLEAN
    /\ map = new(0, 0)
    /\ last = Op("new", 0, 0, <<>>, <<>>, <<0>>, TRUE)
    /\ pc = "idle"
    /\ err = "none"
    /\ it = NoIter
    /\ \E r \in Ranges, offset \in U64, len \in U64 :
         call = [fn |-> "none", r |-> r, offset |-> offset, len |-> len,
                 res |-> <<>>]

\* r.overlaps(offset, len)
CallOverlaps ==
    /\ call.fn = "none"
    /\ call' = [call EXCEPT !.fn = "overlaps",
                            !.res = overlaps(call.r, call.offset, call.len)]
    /\ UNCHANGED <<map, size, debug, pc, err, it, last>>

\* Range::range(offset, len)
CallRange ==
    /\ call.fn = "none"
    /\ call' = [call EXCEPT !.fn = "range",
                            !.res = range(call.offset, call.len, debug)]
    /\ UNCHANGED <<map, size, debug, pc, err, it, last>>

NextPure == CallOverlaps \/ CallRange

\* the functions of Range applied to arbitrary arguments
SpecPure == InitPure /\ [][NextPure]_vars

----------------------------------------------------------------------------
\* what a caller sees of map.iter(offset, len) consumed to its end: whether
\* it aborted, and the values it yielded
Query(m, offset, len) ==
    LET r == iter(m, offset, len, debug)
    IN  [err |-> r.err, vals |-> [i \in 1..Len(r.out) |-> m[r.out[i]]]]

Yields(vs) == [err |-> "none", vals |-> vs]

\* p lies in the window [offset, offset+len) of the operation `last`
InWindow(p) == last.offset <= p /\ p < last.offset + last.len

\* an iter_mut call has returned, its sequence was consumed to its end and
\* dropped, and every value yielded was set to w
WroteAll(w) ==
    /\ pc = "idle"
    /\ last.op = "iter_mut"
    /\ last.done
    /\ \A i \in 1..Len(last.writes) : last.writes[i] = w

\* C1: in every reachable state the stored keys have end > start, are
\* pairwise disjoint and cover exactly [0, size); the store is empty iff
\* size = 0.
C1_Partition ==
    /\ \A k \in DOMAIN map : k.end > k.start
    /\ \A a, b \in DOMAIN map :
         a # b => (a.end <= b.start \/ b.end <= a.start)
    /\ UNION {k.start .. (k.end - 1) : k \in DOMAIN map} = 0 .. (size - 1)
    /\ (DOMAIN map = {}) <=> (size = 0)

C1_Witness ==
    /\ pc = "idle"
    /\ last.op = "iter_mut"
    /\ Cardinality(DOMAIN map) = Cardinality(DOMAIN last.pre) + 2

\* C2 as stated: after iter_mut(offset, len) is consumed to its end with
\* every yielded value set to w, iter(p, 1) returns w for every p in
\* [offset, offset+len).
C2_AsStated ==
    \A w \in Val : WroteAll(w) =>
        \A p \in U64 : InWindow(p) => Query(map, p, 1) = Yields(<<w>>)

\* C2 as amended: when offset + len does not overflow, after iter_mut(offset,
\* len) is consumed to its end with every yielded value set to w, iter(p, 1)
\* returns w for every p in [offset, offset+len) inside the domain, and the
\* empty sequence for every p of the window at or beyond size.
C2_WritePrecisionInside ==
    \A w \in Val : (WroteAll(w) /\ last.offset + last.len <= MaxU) =>
        \A p \in U64 : InWindow(p) =>
            Query(map, p, 1) = Yields(IF p < size THEN <<w>> ELSE <<>>)

\* a range holding 0 straddled the start of the window and every value
\* yielded was set to 1
C2_Witness ==
    /\ WroteAll(1)
    /\ last.offset + last.len <= MaxU
    /\ Len(last.writes) >= 1
    /\ \E k \in DOMAIN last.pre :
         /\ last.pre[k] = 0
         /\ k.start < last.offset
         /\ last.offset < k.end

\* C3: after iter_mut(offset, len), whatever was written through it so far,
\* iter(p, 1) returns for every p outside [offset, offset+len) what it
\* returned before the call.
C3_WritePrecisionOutside ==
    last.op = "iter_mut" =>
        \A p \in U64 : ~InWindow(p) =>
            Query(map, p, 1) = Query(last.pre, p, 1)

\* a range straddling both ends of the window was split and its middle
\* overwritten with another value
C3_Witness ==
    /\ pc = "idle"
    /\ last.op = "iter_mut"
    /\ last.done
    /\ \E k \in DOMAIN last.pre :
         /\ k.start < last.offset
         /\ last.offset + last.len < k.end
         /\ Len(last.writes) = 1
         /\ last.writes[1] # last.pre[k]

\* C4: right after new(size, init), iter(o, 1) yields exactly init for every
\* o in [0, size) and nothing for every o >= size.
C4_InitialUniformity ==
    last.op = "new" =>
        \A o \in U64 :
            Query(map, o, 1) = Yields(IF o < size THEN last.writes ELSE <<>>)

\* C5: iter_mut(offset, 0) completes, yields nothing, splits nothing and
\* leaves the keys and the values of the store as they were.
C5_ZeroLengthNoOp ==
    (last.op = "iter_mut" /\ last.len = 0) =>
        /\ pc # "panicked"
        /\ last.out = <<>>
        /\ map = last.pre

\* a zero-length iter_mut strictly inside a stored range, where a split
\* would show, consumed to its end
C5_Witness ==
    /\ pc = "idle"
    /\ last.op = "iter_mut"
    /\ last.len = 0
    /\ last.done
    /\ \E k \in DOMAIN map : k.start < last.offset /\ last.offset < k.end

\* the keys of q are in strictly ascending start order
Ascending(q) == \A i, j \in 1..Len(q) : i < j => q[i].start < q[j].start

\* C6: iter(offset, len) with len > 0 yields the values of exactly the
\* stored ranges with start < offset+len and end > offset, each once, in
\* ascending start order.
C6_ReadExact ==
    (last.op = "iter" /\ last.len > 0) =>
        /\ pc # "panicked"
        /\ Elems(last.out) =
             {k \in DOMAIN map : /\ k.start < last.offset + last.len
                                 /\ k.end > last.offset}
        /\ Ascending(last.out)

\* C7: in every state between operations iter(o, 1) yields exactly one value
\* for every o in [0, size) and nothing for every o >= size, and no stored
\* range reaches beyond size.
C7_PointTotality ==
    pc = "idle" =>
        /\ \A o \in U64 :
             /\ Query(map, o, 1).err = "none"
             /\ Len(Query(map, o, 1).vals) = (IF o < size THEN 1 ELSE 0)
        /\ \A k \in DOMAIN map : k.end <= size

\* the offsets at which a stored range of m starts or ends
Boundaries(m) == {k.start : k \in DOMAIN m} \cup {k.end : k \in DOMAIN m}

\* C8: no step lowers the number of stored ranges or removes a boundary
\* between two of them; only a call of iter_mut raises the number, by at
\* most two.
C8_CountMonotone ==
    [][LET d == Cardinality(DOMAIN map') - Cardinality(DOMAIN map)
       IN  /\ d \in 0..2
           /\ d > 0 => (pc = "idle" /\ last'.op = "iter_mut"
                        /\ last'.out = <<>>)
           /\ Boundaries(map) \subseteq Boundaries(map')]_vars

\* an iter_mut that split once and left two adjacent ranges with one value
C8_Witness ==
    /\ pc = "idle"
    /\ last.op = "iter_mut"
    /\ Cardinality(DOMAIN map) = Cardinality(DOMAIN last.pre) + 1
    /\ \E a, b \in DOMAIN map : a.end = b.start /\ map[a] = map[b]

\* C9: iter and iter_mut with len > 0 whose offset + len overflows abort and
\* leave the store as it was.
C9_OverflowFailFast ==
    (/\ last.op \in {"iter", "iter_mut"}
     /\ last.len > 0
     /\ last.offset + last.len > MaxU
     /\ pc # "iter_mut") =>
        (pc = "panicked" /\ map = last.pre)

\* the value the consumer stored through the element with key k
Written(k) == last.writes[CHOOSE i \in 1..Len(last.out) : last.out[i] = k]

\* C10 as stated: when the consumer of iter_mut(offset, len) stops after k
\* elements, the store differs from the store before the call only in the
\* values of the k elements consumed.
C10_AsStated ==
    (pc = "idle" /\ last.op = "iter_mut") =>
        /\ DOMAIN map = DOMAIN last.pre
        /\ \A k \in DOMAIN map \ Elems(last.out) : map[k] = last.pre[k]

\* the keys K with every key that has c strictly inside it cut in two at c
Cut(K, c) ==
    {k \in K : ~(k.start < c /\ c < k.end)}
    \cup {Range(k.start, c) : k \in {x \in K : x.start < c /\ c < x.end}}
    \cup {Range(c, k.end) : k \in {x \in K : x.start < c /\ c < x.end}}

\* the value that m holds for the offsets of k
Under(m, k) ==
    m[CHOOSE r \in DOMAIN m : r.start <= k.start /\ k.end <= r.end]

\* C10 as amended: when offset + len does not overflow and the consumer of
\* iter_mut(offset, len) stops after k >= 0 elements, the store differs from
\* the store before the call only by the cuts at offset and offset + len
\* that iter_mut makes when it is called with len > 0, and by the values
\* stored through the k elements consumed.
C10_EarlyStop ==
    (/\ pc \in {"idle", "iter_mut"}
     /\ last.op = "iter_mut"
     /\ last.offset + last.len <= MaxU) =>
        /\ DOMAIN map =
             (IF last.len > 0
              THEN Cut(Cut(DOMAIN last.pre, last.offset),
                       last.offset + last.len)
              ELSE DOMAIN last.pre)
        /\ \A k \in DOMAIN map :
             map[k] = (IF k \in Elems(last.out) THEN Written(k)
                       ELSE Under(last.pre, k))

\* the consumer stopped after one element, leaving a range of the window
\* unvisited
C10_Witness ==
    /\ pc = "idle"
    /\ last.op = "iter_mut"
    /\ ~last.done
    /\ Len(last.out) = 1
    /\ last.offset + last.len <= MaxU
    /\ \E k \in DOMAIN map \ Elems(last.out) :
         last.offset <= k.start /\ k.end <= last.offset + last.len

\* C11: iter_mut_all yields mutable access to every stored value exactly
\* once, in ascending range order, and leaves the stored keys as they were
\* whatever is written.
C11_IterMutAll ==
    last.op = "iter_mut_all" =>
        /\ pc # "panicked"
        /\ DOMAIN map = DOMAIN last.pre
        /\ Elems(last.out) = DOMAIN last.pre
        /\ Len(last.out) = Cardinality(DOMAIN last.pre)
        /\ Ascending(last.out)
        /\ \A i \in 1..Len(last.out) : map[last.out[i]] = last.writes[i]

\* iter_mut_all over three stored ranges changed a value
C11_Witness ==
    /\ last.op = "iter_mut_all"
    /\ Cardinality(DOMAIN map) = 3
    /\ map # last.pre

\* the half-open intervals [offset, offset+len) and [r.start, r.end) share
\* an element
Intersects(r, offset, len) ==
    \E p \in U64 : offset <= p /\ p < offset + len /\ r.start <= p /\ p < r.end

\* C12: for r.end > r.start and offset + len not overflowing,
\* r.overlaps(offset, len) returns true exactly when [offset, offset+len)
\* and [r.start, r.end) share an element.
C12_OverlapsMeaning ==
    (call.fn = "overlaps" /\ call.offset + call.len <= MaxU) =>
        call.res = [err |-> "none",
                    val |-> Intersects(call.r, call.offset, call.len)]

\* r lies in the window [w.lo, w.hi) of the key order
InKeyWindow(r, w) == ~Lt(r, w.lo) /\ Lt(r, w.hi)

\* C13: for len > 0 every Range with end > start that intersects
\* [offset, offset+len) lies in the window that Range::range(offset, len)
\* returns; for len = 0 the window holds no key.
C13_WindowNoFalseNegatives ==
    (call.fn = "range" /\ call.res.err = "none") =>
        \A r \in Ranges :
            IF call.len > 0
            THEN Intersects(r, call.offset, call.len) =>
                     InKeyWindow(r, call.res)
            ELSE ~InKeyWindow(r, call.res)

\* the stored ranges of m that have c strictly inside
Straddlers(m, c) == {k \in DOMAIN m : k.start < c /\ c < k.end}

\* C14: split_entry_at(offset) replaces the one stored range with
\* start < offset < end by [start, offset) and [offset, end), both holding
\* its value, which adds one stored range; without such a range it changes
\* nothing.  Either way iter(p, 1) returns for every p what it did before.
C14_SplitEffect ==
    last.op = "split_entry_at" =>
        /\ IF Straddlers(last.pre, last.offset) # {}
           THEN /\ DOMAIN map = Cut(DOMAIN last.pre, last.offset)
                /\ Cardinality(DOMAIN map)
                     = Cardinality(DOMAIN last.pre) + 1
                /\ \A k \in DOMAIN map : map[k] = Under(last.pre, k)
           ELSE map = last.pre
        /\ \A p \in U64 : Query(map, p, 1) = Query(last.pre, p, 1)

\* C15: a second split_entry_at(offset) right after the first ends as the
\* first did and leaves the keys and values that the first left.
C15_SplitIdempotent ==
    last.op = "split_entry_at" =>
        split_entry_at(map, last.offset, debug) = [err |-> err, map |-> map]

\* the first split_entry_at cut a stored range in two
C15_Witness ==
    /\ pc = "idle"
    /\ last.op = "split_entry_at"
    /\ Cardinality(DOMAIN map) = Cardinality(DOMAIN last.pre) + 1

\* k lies inside the window of the operation `last`
InsideWindow(k) ==
    last.offset <= k.start /\ k.end <= last.offset + last.len

\* k shares no offset with the window of the operation `last`
OutsideWindow(k) ==
    k.end <= last.offset \/ last.offset + last.len <= k.start

\* C16: iter_mut(offset, len) with len > 0 leaves every stored range either
\* inside [offset, offset+len) or disjoint from it, and yields exactly the
\* ranges inside, each once, in ascending start order.
C16_MutExact ==
    (last.op = "iter_mut" /\ last.len > 0) =>
        /\ pc # "panicked"
        /\ \A k \in DOMAIN map : InsideWindow(k) \/ OutsideWindow(k)
        /\ Elems(last.out) \subseteq {k \in DOMAIN map : InsideWindow(k)}
        /\ last.done =>
             Elems(last.out) = {k \in DOMAIN map : InsideWindow(k)}
        /\ Len(last.out) = Cardinality(Elems(last.out))
        /\ Ascending(last.out)

\* C17: no assertion of split_entry_at or of iter_mut ever fails: the range
\* found contains offset, no insert replaces a key, and every range the
\* filter of iter_mut accepts lies inside [offset, offset+len).
C17_AssertionsHold ==
    err \notin {"assert_contains", "assert_dup", "assert_split",
                "debug_assert"}

\* iter_mut split a range at both ends of its window and yielded the middle,
\* so that each assertion was evaluated
C17_Witness ==
    /\ last.op = "iter_mut"
    /\ last.offset + last.len <= MaxU
    /\ Cardinality(DOMAIN map) = Cardinality(DOMAIN last.pre) + 2
    /\ Len(last.out) = 1
    /\ err = "none"

\* the element at index o of the dense array that the store before the
\* operation `last` stands for
ArrayBefore(o) == Under(last.pre, Range(o, o + 1))

\* the values stored by the consumer of the operation `last` are those of the
\* function f applied to the value each yielded range had
Applies(f) ==
    \A i \in 1..Len(last.out) :
        last.writes[i] = f[Under(last.pre, last.out[i])]

\* C18: the values of iter(o, 1) for o in [0, size) are those of an array of
\* length size: after new every element is init, and after an iter_mut
\* (offset, len) whose consumer applied f to every value yielded, the
\* elements at the indices of [offset, offset+len) below size have f applied
\* and the others are as before.
C18_ArrayRefinement ==
    /\ last.op = "new" =>
         \A o \in 0..(size - 1) : Query(map, o, 1) = Yields(<<last.writes[1]>>)
    /\ last.op = "iter_mut" =>
         /\ pc # "panicked"
         /\ (pc = "idle" /\ last.done) =>
              \A f \in [Val -> Val] :
                  Applies(f) =>
                      \A o \in 0..(size - 1) :
                          Query(map, o, 1) =
                              Yields(<<IF InWindow(o)
                                       THEN f[ArrayBefore(o)]
                                       ELSE ArrayBefore(o)>>)

\* C19: iter_mut(offset, len) with len > 0 changes the set of offsets at
\* which a stored range starts or ends to that set united with those of
\* offset and offset+len that lie strictly between 0 and size; iter,
\* iter_mut with len = 0 and iter_mut_all leave the set unchanged.
C19_BoundaryEvolution ==
    /\ (last.op = "iter_mut" /\ last.len > 0) =>
         Boundaries(map) =
             Boundaries(last.pre)
             \cup {c \in {last.offset, last.offset + last.len} :
                      0 < c /\ c < size}
    /\ (last.op = "iter_mut" /\ last.len = 0) =>
         Boundaries(map) = Boundaries(last.pre)
    /\ last.op \in {"iter", "iter_mut_all"} =>
         Boundaries(map) = Boundaries(last.pre)

\* what iter_with_range(offset, len) yields from the keys K when offset + 1,
\* offset + len and offset + len + 1 are computed without a width
UnboundedRange(K, offset, len) ==
    IF len = 0 THEN <<>>
    ELSE SortedKeys({k \in K : /\ ~Lt(k, Range(0, offset + 1))
                               /\ Lt(k, Range(offset + len, offset + len + 1))
                               /\ offset < k.end
                               /\ offset + len >= k.start})

\* C20: iter(offset, len) and iter_mut(offset, len) with offset + len <=
\* MaxU, the largest value of the width, do not abort and return what they
\* return when the additions are computed without a width.
C20_NoAbortOnValidInput ==
    (last.op \in {"iter", "iter_mut"} /\ last.offset + last.len <= MaxU) =>
        /\ pc # "panicked"
        /\ last.op = "iter" =>
             last.out = UnboundedRange(DOMAIN last.pre, last.offset, last.len)
        /\ (last.op = "iter_mut" /\ last.done) =>
             last.out = UnboundedRange(DOMAIN map, last.offset, last.len)
        /\ (last.op = "iter_mut" /\ last.len > 0) =>
             DOMAIN map = Cut(Cut(DOMAIN last.pre, last.offset),
                              last.offset + last.len)

====
